---------------------------- MODULE Spec2Model ----------------------------
(***************************************************************************)
(* A model of the price aggregation, arbitrage decision, venue adapter,    *)
(* oracle and LP helper code of the Solana DEX bot (src/src/cex/mod.rs,    *)
(* src/src/cex/binance.rs, src/src/oracles/mod.rs, src/src/oracles/pyth.rs,*)
(* src/src/dex/mod.rs, src/src/dex/raydium.rs, src/src/dex/jupiter.rs,     *)
(* src/src/metrics/mod.rs, src/src/simulation/mod.rs, src/src/config.rs).  *)
(*                                                                         *)
(* Every public operation is one action.  An action draws the venue        *)
(* responses and the arguments from small sets, runs the whole function    *)
(* body and leaves in the state: the operation's name (op), its inputs     *)
(* (args), the adapter calls it made in order (calls), the values of its   *)
(* local variables when it ended (locals) and how it ended (result).       *)
(* The program keeps no record of a venue's past failures; failures is the *)
(* record an observer of successive best-price queries keeps: for each     *)
(* venue, how many of the queries before the present one it failed in a    *)
(* row (AggregationSpec).  trade_metrics is the TradeMetrics of a          *)
(* MetricsManager and writers the record_trade calls that wait for its     *)
(* write lock (MetricsSpec).  The loops of run_simulation and              *)
(* monitor_price_changes take one action per iteration (SimulationSpec,    *)
(* PriceMonitorSpec): op, args, locals and result then hold the running    *)
(* call.                                                                   *)
(*                                                                         *)
(* f64 values are exact rationals n/d together with the IEEE special       *)
(* values NaN and +-infinity; rounding is not modelled.  A panic (todo!(), *)
(* Option::unwrap on None) is a result of kind "Panic".                    *)
(***************************************************************************)
EXTENDS Integers, Sequences, FiniteSets, TLC

VARIABLES config, op, args, calls, locals, result, failures, trade_metrics, writers

vars == <<config, op, args, calls, locals, result, failures, trade_metrics, writers>>

(***************************************************************************)
(* Bounds of the model.                                                    *)
(***************************************************************************)
\* Ticker and top-of-book prices are drawn from 0..MaxPrice (and NaN).
MaxPrice == 2
\* min_profit_threshold is drawn from -1..MaxThreshold.
MaxThreshold == 2
\* LP position ids are drawn from 1..MaxPositions.
MaxPositions == 2
\* Consecutive failures of a venue are counted up to FailureLimit.
FailureLimit == 2
\* Binance lastUpdateId values are drawn from 1..MaxUpdateId.
MaxUpdateId == 2
\* At most MaxTrades calls of record_trade are made on a MetricsManager.
MaxTrades == 3
\* A simulation has 0..MaxWallets wallets.
MaxWallets == 2
\* Time horizons are the squares of 0..MaxHorizonRoot (and 1/4, -1).
MaxHorizonRoot == 2

(***************************************************************************)
(* f64                                                                     *)
(***************************************************************************)
Abs(i) == IF i < 0 THEN 0 - i ELSE i

Sign(i) == IF i < 0 THEN 0 - 1 ELSE IF i = 0 THEN 0 ELSE 1

RECURSIVE GCD(_, _)
GCD(a, b) == IF b = 0 THEN a ELSE GCD(b, a % b)

\* The finite value n/d (d # 0), in lowest terms with a positive denominator.
Rat(n, d) ==
    LET g == GCD(Abs(n), Abs(d))
    IN  [k |-> "num", n |-> (Sign(d) * n) \div g, d |-> Abs(d) \div g]

Num(i) == Rat(i, 1)

NaN == [k |-> "nan", n |-> 0, d |-> 1]

\* +infinity (s = 1) and -infinity (s = -1).
Inf(s) == [k |-> "inf", n |-> s, d |-> 1]

IsNaN(x) == x.k = "nan"

\* a < b on f64: false as soon as one side is NaN.
FLt(a, b) ==
    IF IsNaN(a) \/ IsNaN(b) THEN FALSE
    ELSE IF a.k = "inf" \/ b.k = "inf"
         THEN \/ a.k = "inf" /\ a.n < 0 /\ ~(b.k = "inf" /\ b.n < 0)
              \/ b.k = "inf" /\ b.n > 0 /\ ~(a.k = "inf" /\ a.n > 0)
         ELSE a.n * b.d < b.n * a.d

FGt(a, b) == FLt(b, a)

\* a >= b on f64: false as soon as one side is NaN.
FGe(a, b) == ~IsNaN(a) /\ ~IsNaN(b) /\ ~FLt(a, b)

FNeg(a) == IF IsNaN(a) THEN NaN ELSE [a EXCEPT !.n = 0 - a.n]

FAdd(a, b) ==
    IF IsNaN(a) \/ IsNaN(b) THEN NaN
    ELSE IF a.k = "inf" /\ b.k = "inf" THEN (IF a.n = b.n THEN a ELSE NaN)
    ELSE IF a.k = "inf" THEN a
    ELSE IF b.k = "inf" THEN b
    ELSE Rat(a.n * b.d + b.n * a.d, a.d * b.d)

FSub(a, b) == FAdd(a, FNeg(b))

FAbs(a) == IF IsNaN(a) THEN NaN ELSE [a EXCEPT !.n = Abs(a.n)]

\* a / b on f64: x/0 is +-infinity, 0/0 and inf/inf are NaN (the zero is +0.0).
FDiv(a, b) ==
    IF IsNaN(a) \/ IsNaN(b) THEN NaN
    ELSE IF b.k = "inf" THEN (IF a.k = "inf" THEN NaN ELSE Num(0))
    ELSE IF a.k = "inf" THEN (IF b.n < 0 THEN Inf(0 - a.n) ELSE a)
    ELSE IF b.n = 0 THEN (IF a.n = 0 THEN NaN ELSE Inf(Sign(a.n)))
    ELSE Rat(a.n * b.d, a.d * b.n)

\* a * b on f64: inf * 0 is NaN.
FMul(a, b) ==
    IF IsNaN(a) \/ IsNaN(b) THEN NaN
    ELSE IF a.k = "inf" \/ b.k = "inf"
         THEN (IF a.n = 0 \/ b.n = 0 THEN NaN ELSE Inf(Sign(a.n) * Sign(b.n)))
         ELSE Rat(a.n * b.n, a.d * b.d)

\* The root of a perfect square (the only integers whose root is taken).
IntRoot(n) == CHOOSE r \in 0..n : r * r = n

\* f64::sqrt of a value whose numerator and denominator are perfect squares:
\* NaN below zero.
FSqrt(a) ==
    IF IsNaN(a) THEN NaN
    ELSE IF a.k = "inf" THEN (IF a.n > 0 THEN a ELSE NaN)
    ELSE IF a.n < 0 THEN NaN
    ELSE Rat(IntRoot(a.n), IntRoot(a.d))

\* f64::partial_cmp: None (<<>>) when one side is NaN.
PartialCmp(a, b) ==
    IF IsNaN(a) \/ IsNaN(b) THEN <<>>
    ELSE IF FLt(a, b) THEN <<"Less">>
    ELSE IF FLt(b, a) THEN <<"Greater">>
    ELSE <<"Equal">>

(***************************************************************************)
(* Result, Option and the outcomes of an operation                         *)
(***************************************************************************)
Ok(v) == [ok |-> TRUE, val |-> v]

\* An adapter error (anyhow::Error); its payload is never inspected.
Err == [ok |-> FALSE, val |-> NaN]

None == <<>>

Some(v) == <<v>>

Returned(v) == [kind |-> "Ok", val |-> v, msg |-> ""]

Failed(m) == [kind |-> "Err", val |-> None, msg |-> m]

Panicked(m) == [kind |-> "Panic", val |-> None, msg |-> m]

(***************************************************************************)
(* Inputs                                                                  *)
(***************************************************************************)
\* The order in which get_best_price_across_exchanges and execute_arbitrage
\* visit the three CEX clients.
Venues == <<"Binance", "Bybit", "OKX">>

VenueIdx == 1..3

SmallPrices == {Num(i) : i \in 0..MaxPrice} \cup {NaN}

\* What CexClient::get_ticker can return: an error or a parsed f64.
TickerResults == {Err} \cup {Ok(p) : p \in SmallPrices}

Thresholds == {Num(i) : i \in (0 - 1)..MaxThreshold}

\* REBALANCE_THRESHOLD values of the environment: 0.05, 0.1 and 1.
RebalanceThresholds == {Rat(5, 100), Rat(1, 10), Num(1)}

(***************************************************************************)
(* cex::get_best_price_across_exchanges                                    *)
(***************************************************************************)
\* The loop over (price, exchange): best is None or Some of the pair kept.
RECURSIVE ScanPrices(_, _, _)
ScanPrices(prices, i, best) ==
    IF i > Len(prices) THEN best
    ELSE LET r == prices[i]
         IN  IF r.ok /\ (best = None \/ FGt(r.val, best[1].price))
             THEN ScanPrices(prices, i + 1,
                             Some([price |-> r.val, exchange |-> Venues[i]]))
             ELSE ScanPrices(prices, i + 1, best)

BestPriceAcrossExchanges(prices) ==
    LET best == ScanPrices(prices, 1, None)
    IN  IF best = None THEN Failed("No valid prices available")
        ELSE Returned(best[1])

GetBestPriceAcrossExchanges ==
    /\ op = "idle"
    /\ \E t1 \in TickerResults, t2 \in TickerResults, t3 \in TickerResults :
        /\ op' = "get_best_price_across_exchanges"
        /\ args' = [tickers |-> <<t1, t2, t3>>]
        /\ calls' = [i \in VenueIdx |-> <<Venues[i], "get_ticker">>]
        /\ locals' = [best |-> ScanPrices(<<t1, t2, t3>>, 1, None)]
        /\ result' = BestPriceAcrossExchanges(<<t1, t2, t3>>)
        /\ UNCHANGED <<config, failures, trade_metrics, writers>>

(***************************************************************************)
(* cex::execute_arbitrage                                                  *)
(***************************************************************************)
\* One side of an OrderBook: only bids.first() and asks.first() are read, so
\* a side is the empty Vec or a Vec holding its top price (the quantity and
\* the lower levels are never read).
BookSides == {<<>>} \cup {<<p>> : p \in SmallPrices}

\* What CexClient::get_order_book can return.
BookResults == {Err} \cup {Ok([bids |-> b, asks |-> a]) : b, a \in BookSides}

\* venue1 bid 50010 / ask 50020, venue2 bid 50050 / ask 50030, venue3 empty.
ScenarioBooks ==
    << Ok([bids |-> <<Num(50010)>>, asks |-> <<Num(50020)>>]),
       Ok([bids |-> <<Num(50050)>>, asks |-> <<Num(50030)>>]),
       Ok([bids |-> <<>>, asks |-> <<>>]) >>

BookInputs ==
    {<<b1, b2, b3>> : b1 \in BookResults, b2 \in BookResults, b3 \in BookResults}
        \cup {ScenarioBooks}

\* slice::first of one side of venue i's book; the PriceLevel reference is
\* modelled by the venue whose book it points into and the price it reads.
First(side, i) ==
    IF side = <<>> THEN None ELSE Some([venue |-> Venues[i], price |-> side[1]])

\* vec![..].into_iter().flatten(): the Some items in order.
RECURSIVE Flatten(_)
Flatten(opts) ==
    IF opts = <<>> THEN <<>> ELSE opts[1] \o Flatten(Tail(opts))

\* Iterator::max_by with |a, b| a.price.partial_cmp(&b.price).unwrap():
\* reduce keeping x only when compare(x, y) is Greater; unwrap panics on None.
RECURSIVE MaxByPrice(_, _, _)
MaxByPrice(levels, i, acc) ==
    IF acc.panic \/ i > Len(levels) THEN acc
    ELSE LET c == PartialCmp(acc.item.price, levels[i].price)
         IN  IF c = None THEN [panic |-> TRUE, item |-> acc.item]
             ELSE MaxByPrice(levels, i + 1,
                    [panic |-> FALSE,
                     item |-> IF c = Some("Greater") THEN acc.item ELSE levels[i]])

\* Iterator::min_by: reduce replacing x only when compare(x, y) is Greater.
RECURSIVE MinByPrice(_, _, _)
MinByPrice(levels, i, acc) ==
    IF acc.panic \/ i > Len(levels) THEN acc
    ELSE LET c == PartialCmp(acc.item.price, levels[i].price)
         IN  IF c = None THEN [panic |-> TRUE, item |-> acc.item]
             ELSE MinByPrice(levels, i + 1,
                    [panic |-> FALSE,
                     item |-> IF c = Some("Greater") THEN levels[i] ELSE acc.item])

\* The comparison with the boundary included (profit >= min_profit_threshold).
ProfitReaches(profit, min_profit_threshold) == FGe(profit, min_profit_threshold)

\* if profit > min_profit_threshold
ProfitExceeds(profit, min_profit_threshold) == FGt(profit, min_profit_threshold)

\* let profit = best_bid.price - best_ask.price
Profit(best_bid, best_ask) == FSub(best_bid.price, best_ask.price)

\* The venues whose get_order_book is awaited: `?` returns at the first Err.
OrderBookCalls(books) ==
    LET failing == {i \in VenueIdx : ~books[i].ok}
        last == IF failing = {} THEN 3
                ELSE CHOOSE i \in failing : \A j \in failing : i <= j
    IN  [i \in 1..last |-> <<Venues[i], "get_order_book">>]

NoLocals == [best_bid |-> None, best_ask |-> None, profit |-> None]

\* The body of execute_arbitrage: its locals at the end and its outcome.
ExecuteArbitrageBody(books, min_profit_threshold) ==
    IF \E i \in VenueIdx : ~books[i].ok
    THEN [locals |-> NoLocals, result |-> Failed("get_order_book")]
    ELSE
    LET bids == Flatten([i \in VenueIdx |-> First(books[i].val.bids, i)])
        asks == Flatten([i \in VenueIdx |-> First(books[i].val.asks, i)])
        bid == IF bids = <<>> THEN [panic |-> FALSE, item |-> None]
               ELSE MaxByPrice(bids, 2, [panic |-> FALSE, item |-> bids[1]])
        ask == IF asks = <<>> THEN [panic |-> FALSE, item |-> None]
               ELSE MinByPrice(asks, 2, [panic |-> FALSE, item |-> asks[1]])
    IN  IF bid.panic
        THEN [locals |-> NoLocals,
              result |-> Panicked("unwrap on None")]
        ELSE IF bids = <<>>
        THEN [locals |-> NoLocals, result |-> Failed("No bids available")]
        ELSE IF ask.panic
        THEN [locals |-> [NoLocals EXCEPT !.best_bid = Some(bid.item)],
              result |-> Panicked("unwrap on None")]
        ELSE IF asks = <<>>
        THEN [locals |-> [NoLocals EXCEPT !.best_bid = Some(bid.item)],
              result |-> Failed("No asks available")]
        ELSE
        LET profit == Profit(bid.item, ask.item)
            done == [best_bid |-> Some(bid.item), best_ask |-> Some(ask.item),
                     profit |-> Some(profit)]
        IN  IF ProfitExceeds(profit, min_profit_threshold)
            THEN [locals |-> done,
                  result |-> Panicked("not yet implemented: Implement arbitrage execution")]
            ELSE [locals |-> done, result |-> Returned(None)]

ExecuteArbitrage ==
    /\ op = "idle"
    /\ \E books \in BookInputs, min_profit_threshold \in Thresholds :
        LET run == ExecuteArbitrageBody(books, min_profit_threshold)
        IN  /\ op' = "execute_arbitrage"
            /\ args' = [books |-> books, min_profit_threshold |-> min_profit_threshold]
            /\ calls' = OrderBookCalls(books)
            /\ locals' = run.locals
            /\ result' = run.result
            /\ UNCHANGED <<config, failures, trade_metrics, writers>>

(***************************************************************************)
(* BinanceClient::get_order_book                                           *)
(***************************************************************************)
\* Decimal strings of a depth response: numbers, "NaN" (which f64's FromStr
\* accepts) and text that is no number.
WireStrings == {"0", "1", "2.5", "NaN", "abc"}

\* str::parse::<f64>: Ok(value) or Err.
ParseF64(str) ==
    CASE str = "0" -> Ok(Num(0))
      [] str = "1" -> Ok(Num(1))
      [] str = "2.5" -> Ok(Rat(5, 2))
      [] str = "NaN" -> Ok(NaN)
      [] OTHER -> Err

\* Why a request may fail: send() fails (timeout, network) or the body the
\* venue sends with its refusal does not deserialize into T (rate limit,
\* authentication, insufficient balance).
TransportErrors == {"timeout", "network", "rate limit", "authentication"}

Refused(kind) == [ok |-> FALSE, val |-> NaN, kind |-> kind]

\* A make_request that sends again after every failure, as long as the venue
\* has another answer.
RetryingRequest(outcomes) ==
    LET answered == {i \in 1..Len(outcomes) : outcomes[i].ok}
        last == IF answered = {} THEN Len(outcomes)
                ELSE CHOOSE i \in answered : \A j \in answered : i <= j
    IN  [sent |-> last, response |-> outcomes[last]]

\* make_request: request.send().await? and response.json::<T>().await?, once.
\* outcomes[i] is what the venue would answer to the i-th send.
MakeRequest(outcomes) == [sent |-> 1, response |-> outcomes[1]]

\* One side of the BinanceOrderBook: Vec<[String; 2]> with no or one level.
WireSides == {<<>>} \cup {<< <<price, qty>> >> : price, qty \in WireStrings}

\* What make_request::<BinanceOrderBook> can return.
DepthResponses ==
    {Refused(kind) : kind \in TransportErrors} \cup {Ok([bids |-> b, asks |-> a, lastUpdateId |-> u]) :
                  b \in WireSides, a \in WireSides, u \in 1..MaxUpdateId}

\* .map(|[price, qty]| PriceLevel { price: price.parse().unwrap(),
\*                                  quantity: qty.parse().unwrap() }).collect()
RECURSIVE ConvertLevels(_, _, _)
ConvertLevels(levels, i, acc) ==
    IF i > Len(levels) THEN [panic |-> FALSE, levels |-> acc]
    ELSE LET price == ParseF64(levels[i][1])
             quantity == ParseF64(levels[i][2])
         IN  IF ~price.ok \/ ~quantity.ok
             THEN [panic |-> TRUE, levels |-> acc]
             ELSE ConvertLevels(levels, i + 1,
                      Append(acc, [price |-> price.val, quantity |-> quantity.val]))

BinanceOrderBookOf(response) ==
    IF ~response.ok THEN Failed("make_request")
    ELSE LET bids == ConvertLevels(response.val.bids, 1, <<>>)
             asks == ConvertLevels(response.val.asks, 1, <<>>)
         IN  IF bids.panic \/ asks.panic
             THEN Panicked("unwrap on Err")
             ELSE Returned([bids |-> bids.levels, asks |-> asks.levels,
                            timestamp |-> response.val.lastUpdateId])

\* What the venue would answer to a send after the first one.
LaterDepthResponses ==
    {Refused("timeout"), Ok([bids |-> <<>>, asks |-> <<>>, lastUpdateId |-> 1])}

BinanceGetOrderBook ==
    /\ op = "idle"
    /\ \E first \in DepthResponses, later \in LaterDepthResponses :
        LET request == MakeRequest(<<first, later>>)
        IN  /\ op' = "BinanceClient::get_order_book"
            /\ args' = [outcomes |-> <<first, later>>]
            /\ calls' = [i \in 1..request.sent |->
                            <<"Binance", "make_request /api/v3/depth">>]
            /\ locals' = [none |-> TRUE]
            /\ result' = BinanceOrderBookOf(request.response)
            /\ UNCHANGED <<config, failures, trade_metrics, writers>>

(***************************************************************************)
(* BinanceClient::place_order                                              *)
(***************************************************************************)
OrderSides == {"BUY", "SELL"}

\* What the venue answers to an order: its order id, or a refusal.
OrderResponses ==
    {Ok("1")} \cup {Refused(kind) : kind \in TransportErrors \cup {"insufficient balance"}}

LaterOrderResponses == {Refused("timeout"), Ok("2")}

\* let response: OrderResponse = self.make_request(..).await?; Ok(response.orderId)
BinanceOrderIdOf(response) ==
    IF ~response.ok THEN Failed("make_request") ELSE Returned(response.val)

BinancePlaceOrder ==
    /\ op = "idle"
    /\ \E side \in OrderSides, price \in SmallPrices, quantity \in SmallPrices,
          first \in OrderResponses, later \in LaterOrderResponses :
        LET request == MakeRequest(<<first, later>>)
        IN  /\ op' = "BinanceClient::place_order"
            /\ args' = [side |-> side, price |-> price, quantity |-> quantity,
                        outcomes |-> <<first, later>>]
            /\ calls' = [i \in 1..request.sent |->
                            <<"Binance", "make_request /api/v3/order">>]
            /\ locals' = [none |-> TRUE]
            /\ result' = BinanceOrderIdOf(request.response)
            /\ UNCHANGED <<config, failures, trade_metrics, writers>>

(***************************************************************************)
(* cex::monitor_price_differences                                          *)
(***************************************************************************)
\* The outcome of a loop iteration that reached its end: the function has not
\* returned and waits for the next tick.
Looping == [kind |-> "Loop", val |-> None, msg |-> ""]

\* let diff = (price - p).abs() / p
PriceDifference(price, p) == FDiv(FAbs(FSub(price, p)), p)

\* The venues whose second ticker is Ok and differs from price by more than
\* threshold: the lines the iteration prints.
SignificantDifferences(price, other_prices, threshold) ==
    {i \in VenueIdx : /\ other_prices[i].ok
                      /\ FGt(PriceDifference(price, other_prices[i].val), threshold)}

\* One iteration of the loop: get_best_price_across_exchanges(..).await? ends
\* the function with its error; otherwise the three tickers are fetched again
\* and compared with the best price.
MonitorIteration(tickers, other_prices, threshold) ==
    LET best == BestPriceAcrossExchanges(tickers)
    IN  IF best.kind = "Err"
        THEN [calls |-> [i \in VenueIdx |-> <<Venues[i], "get_ticker">>],
              locals |-> [best |-> None, printed |-> {}],
              result |-> best]
        ELSE [calls |-> [i \in 1..6 |-> <<Venues[((i - 1) % 3) + 1], "get_ticker">>],
              locals |-> [best |-> Some(best.val),
                          printed |-> SignificantDifferences(best.val.price,
                                                             other_prices, threshold)],
              result |-> Looping]

MonitorPriceDifferences ==
    /\ op = "idle"
    /\ \E t1 \in TickerResults, t2 \in TickerResults, t3 \in TickerResults,
          o1 \in TickerResults, o2 \in TickerResults, o3 \in TickerResults,
          threshold \in Thresholds :
        LET run == MonitorIteration(<<t1, t2, t3>>, <<o1, o2, o3>>, threshold)
        IN  /\ op' = "monitor_price_differences"
            /\ args' = [tickers |-> <<t1, t2, t3>>, other_prices |-> <<o1, o2, o3>>,
                        threshold |-> threshold]
            /\ calls' = run.calls
            /\ locals' = run.locals
            /\ result' = run.result
            /\ UNCHANGED <<config, failures, trade_metrics, writers>>

(***************************************************************************)
(* dex::calculate_rebalance_threshold                                      *)
(***************************************************************************)
\* Prices of the LP helpers: 0..MaxPrice and the prices around a position
\* of bounds (95, 105): 95, 100, 104.9, 105 and 106.
LpPrices ==
    {Num(i) : i \in 0..MaxPrice}
        \cup {Num(95), Num(100), Rat(1049, 10), Num(105), Num(106)}

\* let mid_price = (min_price + max_price) / 2.0
MidPrice(min_price, max_price) == FDiv(FAdd(min_price, max_price), Num(2))

\* (current_price - mid_price).abs() / mid_price
RebalanceDeviation(current_price, min_price, max_price) ==
    LET mid_price == MidPrice(min_price, max_price)
    IN  FDiv(FAbs(FSub(current_price, mid_price)), mid_price)

\* The helper returns the deviation; it awaits nothing and calls no client.
CalculateRebalanceThreshold ==
    /\ op = "idle"
    /\ \E current_price \in LpPrices, min_price \in LpPrices, max_price \in LpPrices :
        /\ op' = "calculate_rebalance_threshold"
        /\ args' = [current_price |-> current_price, min_price |-> min_price,
                    max_price |-> max_price]
        /\ calls' = <<>>
        /\ locals' = [mid_price |-> MidPrice(min_price, max_price)]
        /\ result' = Returned(RebalanceDeviation(current_price, min_price, max_price))
        /\ UNCHANGED <<config, failures, trade_metrics, writers>>

(***************************************************************************)
(* dex::calculate_optimal_range and dex::calculate_optimal_position_size   *)
(***************************************************************************)
\* Volatility estimates: 0, 0.1, 0.5 and 2.
Volatilities == {Num(0), Rat(1, 10), Rat(1, 2), Num(2)}

\* Time horizons: perfect squares, 1/4 and a negative one.
Horizons ==
    {Num(i * i) : i \in 0..MaxHorizonRoot} \cup {Rat(1, 4), Num(0 - 1)}

\* let range = volatility * time_horizon.sqrt()
Range(volatility, time_horizon) == FMul(volatility, FSqrt(time_horizon))

\* (current_price * (1.0 - range), current_price * (1.0 + range))
OptimalRange(current_price, volatility, time_horizon) ==
    LET range == Range(volatility, time_horizon)
    IN  << FMul(current_price, FSub(Num(1), range)),
           FMul(current_price, FAdd(Num(1), range)) >>

CalculateOptimalRange ==
    /\ op = "idle"
    /\ \E current_price \in LpPrices, volatility \in Volatilities,
          time_horizon \in Horizons :
        /\ op' = "calculate_optimal_range"
        /\ args' = [current_price |-> current_price, volatility |-> volatility,
                    time_horizon |-> time_horizon]
        /\ calls' = <<>>
        /\ locals' = [range |-> Range(volatility, time_horizon)]
        /\ result' = Returned(OptimalRange(current_price, volatility, time_horizon))
        /\ UNCHANGED <<config, failures, trade_metrics, writers>>

\* Capital of 0, 1 and 1000 units; a risk per trade of 0, 1% and 100%.
Capitals == {Num(0), Num(1), Num(1000)}

Risks == {Num(0), Rat(1, 100), Num(1)}

\* total_capital * risk_per_trade / current_price
OptimalPositionSize(total_capital, risk_per_trade, current_price) ==
    FDiv(FMul(total_capital, risk_per_trade), current_price)

CalculateOptimalPositionSize ==
    /\ op = "idle"
    /\ \E total_capital \in Capitals, risk_per_trade \in Risks,
          current_price \in LpPrices :
        /\ op' = "calculate_optimal_position_size"
        /\ args' = [total_capital |-> total_capital, risk_per_trade |-> risk_per_trade,
                    current_price |-> current_price]
        /\ calls' = <<>>
        /\ locals' = [none |-> TRUE]
        /\ result' = Returned(OptimalPositionSize(total_capital, risk_per_trade,
                                                  current_price))
        /\ UNCHANGED <<config, failures, trade_metrics, writers>>

(***************************************************************************)
(* oracles::get_best_price                                                 *)
(***************************************************************************)
\* What a price feed's get_price hands over: Ok(price) or Err.
FeedResults == {Ok(p) : p \in SmallPrices} \cup {Err}

\* match (pyth_price, switchboard_price): both Ok -> (pyth + switchboard) / 2.0,
\* one Ok -> that price, both Err -> Err("Both price feeds failed").
OracleBestPrice(pyth_price, switchboard_price) ==
    IF pyth_price.ok /\ switchboard_price.ok
    THEN Returned(FDiv(FAdd(pyth_price.val, switchboard_price.val), Num(2)))
    ELSE IF pyth_price.ok THEN Returned(pyth_price.val)
    ELSE IF switchboard_price.ok THEN Returned(switchboard_price.val)
    ELSE Failed("Both price feeds failed")

OracleGetBestPrice ==
    /\ op = "idle"
    /\ \E pyth_price \in FeedResults, switchboard_price \in FeedResults :
        /\ op' = "oracles::get_best_price"
        /\ args' = [pyth_price |-> pyth_price, switchboard_price |-> switchboard_price]
        /\ calls' = <<>>
        /\ locals' = [none |-> TRUE]
        /\ result' = OracleBestPrice(pyth_price, switchboard_price)
        /\ UNCHANGED <<config, failures, trade_metrics, writers>>

(***************************************************************************)
(* oracles::monitor_price_changes                                          *)
(***************************************************************************)
\* Prices a feed reports: a drift 100, 102, 104, 105, 106, zero and NaN.
MonitorPrices ==
    {Num(0), Num(100), Num(102), Num(104), Num(105), Num(106), NaN}

\* What price_feed.get_price can return.
MonitorFeedResults == {Ok(p) : p \in MonitorPrices} \cup {Err}

\* threshold: 5%, zero and a negative one.
MonitorThresholds == {Rat(5, 100), Num(0), Num(0 - 1)}

\* if price_change > threshold: a monitor that notifies only above the
\* threshold.
PriceChangeExceeds(price_change, threshold) == FGt(price_change, threshold)

\* if price_change >= threshold
PriceChangeReaches(price_change, threshold) == FGe(price_change, threshold)

\* let price_change = (current_price - last_price).abs() / last_price
PriceChange(current_price, last_price) ==
    FDiv(FAbs(FSub(current_price, last_price)), last_price)

\* let mut last_price = price_feed.get_price(symbol).await?
StartPriceMonitor ==
    /\ op = "idle"
    /\ \E threshold \in MonitorThresholds, first \in MonitorFeedResults :
        /\ op' = "monitor_price_changes"
        /\ args' = [threshold |-> threshold]
        /\ calls' = << <<"PriceFeed", "get_price">> >>
        /\ locals' = [last_price |-> IF first.ok THEN Some(first.val) ELSE None,
                      tick |-> None, previous_tick |-> None]
        /\ result' = IF first.ok THEN Looping ELSE Failed("get_price")
        /\ UNCHANGED <<config, failures, trade_metrics, writers>>

\* One iteration of the loop; tick records the baseline the iteration found,
\* the price it read, the change it computed and the price it passed to the
\* callback, previous_tick the same of the iteration before.
PriceTick ==
    /\ op = "monitor_price_changes"
    /\ result = Looping
    /\ \E current \in MonitorFeedResults :
        IF ~current.ok
        THEN /\ result' = Failed("get_price")
             /\ UNCHANGED locals
        ELSE LET last_price == locals.last_price[1]
                 current_price == current.val
                 price_change == PriceChange(current_price, last_price)
                 notify == PriceChangeReaches(price_change, args.threshold)
             IN  /\ locals' = [last_price |-> IF notify THEN Some(current_price)
                                              ELSE Some(last_price),
                               tick |-> Some([baseline |-> last_price,
                                              current_price |-> current_price,
                                              price_change |-> price_change,
                                              callback |-> IF notify
                                                           THEN Some(current_price)
                                                           ELSE None]),
                               previous_tick |-> locals.tick]
                 /\ result' = Looping
    /\ UNCHANGED <<op, args, calls, config, failures, trade_metrics, writers>>

(***************************************************************************)
(* PythClient::subscribe_price_updates                                     *)
(***************************************************************************)
Symbols == {"SOL/USD", "BTC/USD"}

\* PythClient::get_price_account: the body is todo!().
PythGetPriceAccount(symbol) ==
    Panicked("not yet implemented: Implement price account lookup")

\* let price_account = self.get_price_account(symbol).await?; the todo!()
\* that follows is not reached and the callback is never called.
PythSubscribePriceUpdates ==
    /\ op = "idle"
    /\ \E symbol \in Symbols :
        /\ op' = "PythClient::subscribe_price_updates"
        /\ args' = [symbol |-> symbol]
        /\ calls' = << <<"Pyth", "get_price_account">> >>
        /\ locals' = [delivered |-> <<>>]
        /\ result' = PythGetPriceAccount(symbol)
        /\ UNCHANGED <<config, failures, trade_metrics, writers>>

(***************************************************************************)
(* DexClient::rebalance_position and DexClient::harvest_fees               *)
(***************************************************************************)
DexClients == {"Raydium", "Jupiter"}

PositionIds == 1..MaxPositions

\* RaydiumClient::rebalance_position: the body is todo!().
RaydiumRebalancePosition(position_id, new_min_price, new_max_price) ==
    Panicked("not yet implemented: Implement position rebalancing")

\* JupiterClient::rebalance_position: the body is todo!().
JupiterRebalancePosition(position_id, new_min_price, new_max_price) ==
    Panicked("not yet implemented: LP positions not supported by Jupiter")

\* RaydiumClient::harvest_fees: the body is todo!().
RaydiumHarvestFees(position_id) ==
    Panicked("not yet implemented: Implement fee harvesting")

\* JupiterClient::harvest_fees: the body is todo!().
JupiterHarvestFees(position_id) ==
    Panicked("not yet implemented: LP positions not supported by Jupiter")

RebalancePosition ==
    /\ op = "idle"
    /\ \E client \in DexClients, position_id \in PositionIds,
          new_min_price \in SmallPrices, new_max_price \in SmallPrices :
        /\ op' = "rebalance_position"
        /\ args' = [client |-> client, position_id |-> position_id,
                    new_min_price |-> new_min_price, new_max_price |-> new_max_price]
        /\ calls' = <<>>
        /\ locals' = [none |-> TRUE]
        /\ result' = IF client = "Raydium"
                     THEN RaydiumRebalancePosition(position_id, new_min_price, new_max_price)
                     ELSE JupiterRebalancePosition(position_id, new_min_price, new_max_price)
        /\ UNCHANGED <<config, failures, trade_metrics, writers>>

HarvestFees ==
    /\ op = "idle"
    /\ \E client \in DexClients, position_id \in PositionIds :
        /\ op' = "harvest_fees"
        /\ args' = [client |-> client, position_id |-> position_id]
        /\ calls' = <<>>
        /\ locals' = [none |-> TRUE]
        /\ result' = IF client = "Raydium" THEN RaydiumHarvestFees(position_id)
                     ELSE JupiterHarvestFees(position_id)
        /\ UNCHANGED <<config, failures, trade_metrics, writers>>

(***************************************************************************)
(* MetricsManager::record_trade                                            *)
(***************************************************************************)
\* TradeMetrics::default()
DefaultTradeMetrics ==
    [total_volume |-> Num(0), num_trades |-> 0, successful_trades |-> 0,
     failed_trades |-> 0, average_trade_size |-> Num(0), trade_latencies |-> <<>>]

\* The arguments of record_trade: volume, success and latency (milliseconds).
TradeRecords ==
    [volume : {Num(1), Rat(5, 2), NaN}, success : BOOLEAN, latency : {100, 250}]

\* A record_trade that counts a trade and stores its latency only when the
\* trade succeeded.
RecordSuccessfulTradeOn(metrics, trade) ==
    LET volume == FAdd(metrics.total_volume, trade.volume)
    IN  IF trade.success
        THEN [metrics EXCEPT
                 !.total_volume = volume,
                 !.num_trades = @ + 1,
                 !.successful_trades = @ + 1,
                 !.trade_latencies = Append(@, trade.latency),
                 !.average_trade_size = FDiv(volume, Num(metrics.num_trades + 1))]
        ELSE [metrics EXCEPT !.total_volume = volume, !.failed_trades = @ + 1]

\* The body of record_trade under the write lock.
RecordTradeOn(metrics, trade) ==
    LET volume == FAdd(metrics.total_volume, trade.volume)
        num_trades == metrics.num_trades + 1
    IN  [total_volume |-> volume,
         num_trades |-> num_trades,
         successful_trades |-> metrics.successful_trades
                                   + (IF trade.success THEN 1 ELSE 0),
         failed_trades |-> metrics.failed_trades + (IF trade.success THEN 0 ELSE 1),
         average_trade_size |-> FDiv(volume, Num(num_trades)),
         trade_latencies |-> Append(metrics.trade_latencies, trade.latency)]

\* The sequence without its i-th element.
Without(seq, i) == SubSeq(seq, 1, i - 1) \o SubSeq(seq, i + 1, Len(seq))

\* A task calls record_trade and reaches self.trade_metrics.write().await.
CallRecordTrade ==
    /\ op = "idle"
    /\ Len(writers) + Len(calls) < MaxTrades
    /\ \E trade \in TradeRecords : writers' = Append(writers, trade)
    /\ UNCHANGED <<config, op, args, calls, locals, result, failures, trade_metrics>>

\* A waiting call is granted the write lock, runs the body, which awaits
\* nothing, and returns Ok(()); the guard is dropped on return.
RecordTrade ==
    /\ op = "idle"
    /\ \E i \in DOMAIN writers :
        /\ trade_metrics' = RecordTradeOn(trade_metrics, writers[i])
        /\ writers' = Without(writers, i)
        /\ calls' = Append(calls, <<"MetricsManager", "record_trade", writers[i]>>)
    /\ UNCHANGED <<config, op, args, locals, result, failures>>

(***************************************************************************)
(* VolumeSimulator::run_simulation                                         *)
(***************************************************************************)
\* Times are in nanoseconds, the resolution of Instant and Duration.
\* config.duration: zero, one nanosecond and 120 ms.
SimulationDurations == {0, 1, 120000000}

\* What start_time.elapsed() can read at the first test of the loop: the
\* clock has not advanced since Instant::now(), or it has.
FirstElapsed == {0, 100}

\* (min_trade_size, max_trade_size): 0.1 .. 1.0, 0.0 .. 1.0 and an empty range.
TradeSizeRanges ==
    {<<Rat(1, 10), Num(1)>>, <<Num(0), Num(1)>>, <<Num(1), Num(1)>>}

\* (min_interval, max_interval): 0 .. 10 ms and an empty range.
IntervalRanges == {<<0, 10000000>>, <<10000000, 10000000>>}

SimulationConfigs ==
    [num_wallets : 0..MaxWallets, trade_size : TradeSizeRanges,
     interval : IntervalRanges, duration : SimulationDurations]

\* rng.gen_range(low..high) on f64: the lower end and the middle of the range.
TradeSizeSamples(range) == {range[1], FDiv(FAdd(range[1], range[2]), Num(2))}

\* rng.gen_range(low..high) on milliseconds: the two ends of the range.
DelaySamples(range) == {range[1], range[2] - 1000000}

\* rng.gen_range(50..200) milliseconds.
LatencySamples == {50000000, 199000000}

\* SimulationResult at the start of run_simulation.
EmptySimulationResult ==
    [total_volume |-> Num(0), num_trades |-> 0, average_trade_size |-> Num(0),
     wallet_volumes |-> <<>>, execution_times |-> <<>>]

\* *result.wallet_volumes.entry(wallet).or_insert(0.0) += trade_size; the map
\* is a function from the wallets that traded to their volume.
AddWalletVolume(wallet_volumes, wallet, trade_size) ==
    [w \in DOMAIN wallet_volumes \cup {wallet} |->
        IF w = wallet
        THEN FAdd(IF w \in DOMAIN wallet_volumes THEN wallet_volumes[w] ELSE Num(0),
                  trade_size)
        ELSE wallet_volumes[w]]

\* The updates of one loop iteration.
RecordSimulatedTrade(r, wallet, trade_size, execution_time) ==
    [r EXCEPT !.total_volume = FAdd(r.total_volume, trade_size),
              !.num_trades = r.num_trades + 1,
              !.execution_times = Append(r.execution_times, execution_time),
              !.wallet_volumes = AddWalletVolume(r.wallet_volumes, wallet, trade_size)]

\* gen_range panics on an empty range: no wallet, min_trade_size >= max_trade_size
\* or min_interval >= max_interval.
EmptyRangeIn(cfg) ==
    \/ cfg.num_wallets = 0
    \/ ~FLt(cfg.trade_size[1], cfg.trade_size[2])
    \/ cfg.interval[1] >= cfg.interval[2]

\* VolumeSimulator::new(config) and the entry of run_simulation, up to the
\* first test of the loop condition.
StartSimulation ==
    /\ op = "idle"
    /\ \E cfg \in SimulationConfigs, elapsed \in FirstElapsed :
        /\ op' = "run_simulation"
        /\ args' = cfg
        /\ calls' = <<>>
        /\ locals' = [result |-> EmptySimulationResult, elapsed |-> elapsed]
        /\ result' = Looping
        /\ UNCHANGED <<config, failures, trade_metrics, writers>>

\* One iteration of while start_time.elapsed() < self.config.duration.
SimulateTrade ==
    /\ op = "run_simulation"
    /\ result = Looping
    /\ locals.elapsed < args.duration
    /\ IF EmptyRangeIn(args)
       THEN /\ result' = Panicked("cannot sample empty range")
            /\ UNCHANGED locals
       ELSE \E wallet \in 1..args.num_wallets,
               trade_size \in TradeSizeSamples(args.trade_size),
               execution_time \in LatencySamples,
               delay \in DelaySamples(args.interval) :
                /\ locals' = [result |-> RecordSimulatedTrade(locals.result, wallet,
                                             trade_size, execution_time),
                              elapsed |-> locals.elapsed + execution_time + delay]
                /\ result' = Looping
    /\ UNCHANGED <<op, args, calls, config, failures, trade_metrics, writers>>

\* The loop condition is false: average_trade_size is set and the result
\* returned.
ReturnSimulationResult ==
    /\ op = "run_simulation"
    /\ result = Looping
    /\ locals.elapsed >= args.duration
    /\ LET r == locals.result
           final == [r EXCEPT !.average_trade_size =
                                  FDiv(r.total_volume, Num(r.num_trades))]
       IN  /\ locals' = [locals EXCEPT !.result = final]
           /\ result' = Returned(final)
    /\ UNCHANGED <<op, args, calls, config, failures, trade_metrics, writers>>

(***************************************************************************)
(* The caller                                                              *)
(***************************************************************************)
\* The caller takes the outcome of a call and is ready for the next one; a
\* panic unwinds the calling task, which makes no further call.
NextCall ==
    /\ op # "idle"
    /\ result.kind # "Panic"
    /\ op' = "idle"
    /\ args' = [none |-> TRUE]
    /\ calls' = <<>>
    /\ locals' = [none |-> TRUE]
    /\ result' = Returned(None)
    /\ UNCHANGED <<config, failures, trade_metrics, writers>>

\* A venue's count after a query: one more when its ticker call failed, 0
\* when it answered.
CountFailures(count, tickers) ==
    [i \in VenueIdx |->
        IF tickers[i].ok THEN 0
        ELSE IF count[i] < FailureLimit THEN count[i] + 1 ELSE FailureLimit]

\* The caller of successive best-price queries (the loop of
\* monitor_price_differences): it takes the outcome of a query and makes the
\* next one at once; the observer counts the query's failures.
NextQuery ==
    /\ op = "get_best_price_across_exchanges"
    /\ op' = "idle"
    /\ args' = [none |-> TRUE]
    /\ calls' = <<>>
    /\ locals' = [none |-> TRUE]
    /\ result' = Returned(None)
    /\ failures' = CountFailures(failures, args.tickers)
    /\ UNCHANGED <<config, trade_metrics, writers>>

(***************************************************************************)
(* Specification                                                           *)
(***************************************************************************)
\* Config::load has read REBALANCE_THRESHOLD; no call has been made yet.
Init ==
    /\ config \in [rebalance_threshold : RebalanceThresholds]
    /\ op = "idle"
    /\ args = [none |-> TRUE]
    /\ calls = <<>>
    /\ locals = [none |-> TRUE]
    /\ result = Returned(None)
    /\ failures = [i \in VenueIdx |-> 0]
    /\ trade_metrics = DefaultTradeMetrics
    /\ writers = <<>>

Next ==
    \/ GetBestPriceAcrossExchanges
    \/ ExecuteArbitrage
    \/ BinanceGetOrderBook
    \/ BinancePlaceOrder
    \/ MonitorPriceDifferences
    \/ CalculateRebalanceThreshold
    \/ CalculateOptimalRange
    \/ CalculateOptimalPositionSize
    \/ OracleGetBestPrice
    \/ PythSubscribePriceUpdates
    \/ RebalancePosition
    \/ HarvestFees
    \/ NextCall

Spec == Init /\ [][Next]_vars

\* Successive best-price queries, with the observer's count of failures.
AggregationNext ==
    \/ GetBestPriceAcrossExchanges
    \/ NextQuery

AggregationSpec == Init /\ [][AggregationNext]_vars

\* Tasks that share a MetricsManager and record trades on it.
MetricsNext ==
    \/ CallRecordTrade
    \/ RecordTrade

MetricsSpec == Init /\ [][MetricsNext]_vars

\* Runs of the price monitor.
PriceMonitorNext ==
    \/ StartPriceMonitor
    \/ PriceTick
    \/ NextCall

PriceMonitorSpec == Init /\ [][PriceMonitorNext]_vars

\* Runs of the volume simulation.
SimulationNext ==
    \/ StartSimulation
    \/ SimulateTrade
    \/ ReturnSimulationResult
    \/ NextCall

SimulationSpec == Init /\ [][SimulationNext]_vars

(***************************************************************************)
(* Claims                                                                  *)
(***************************************************************************)
\* The venues whose ticker call succeeded in the last best-price query.
FreshVenues == {i \in VenueIdx : args.tickers[i].ok}

\* Those among them whose price is a number.
NumericFresh == {i \in FreshVenues : ~IsNaN(args.tickers[i].val)}

\* The returned pair is the quote of a fresh venue.
PairedWithItsVenue ==
    \E i \in FreshVenues :
        result.val = [price |-> args.tickers[i].val, exchange |-> Venues[i]]

\* C1: a best-price query over quotes of which at least one is fresh returns,
\* with the venue that holds it, the maximum of the fresh prices when asked
\* for the sell side and their minimum when asked for the buy side; it fails
\* exactly when no venue has a fresh quote.
C1_BestPriceIsExtremeOfFresh ==
    op = "get_best_price_across_exchanges" =>
        /\ result.kind = "Err" <=> FreshVenues = {}
        /\ FreshVenues # {} =>
            /\ result.kind = "Ok"
            /\ PairedWithItsVenue
            /\ \A side \in {"sell", "buy"} : \A j \in NumericFresh :
                 IF side = "sell"
                 THEN FGe(result.val.price, args.tickers[j].val)
                 ELSE FGe(args.tickers[j].val, result.val.price)

\* The execution branch of execute_arbitrage was entered: it ends in todo!().
EnteredExecution ==
    /\ op = "execute_arbitrage"
    /\ result = Panicked("not yet implemented: Implement arbitrage execution")

\* The profit the last execute_arbitrage call computed is strictly above t.
ProfitStrictlyAbove(t) ==
    /\ locals.profit # None
    /\ locals.profit[1].k = "num"
    /\ locals.profit[1].n * t.d > t.n * locals.profit[1].d

\* C2: execute_arbitrage enters its execution branch if and only if the profit
\* it computed is strictly greater than min_profit_threshold; at a profit
\* equal to the threshold it returns Ok(()) without entering it.
C2_EmitsIffProfitStrictlyAboveThreshold ==
    op = "execute_arbitrage" =>
        /\ EnteredExecution <=> ProfitStrictlyAbove(args.min_profit_threshold)
        /\ (locals.profit = Some(args.min_profit_threshold)) => result = Returned(None)

\* C2's case: a call whose profit equals the threshold exactly.
C2_Witness ==
    /\ op = "execute_arbitrage"
    /\ locals.profit = Some(args.min_profit_threshold)
    /\ result = Returned(None)

\* C3: the profit compared with the threshold is bestBid - bestAsk less the
\* fees of both venues and the slippage: in the scenario bid 50010/ask 50020
\* on venue1 and bid 50050/ask 50030 on venue2, with a fee of 0.1% of the price
\* on each leg, it is 30 - 100.07 = -70.07 and nothing is emitted for any
\* threshold >= 0.
C3_ScenarioNetProfitNegative ==
    (op = "execute_arbitrage" /\ args.books = ScenarioBooks
        /\ FGe(args.min_profit_threshold, Num(0))) =>
        /\ ~EnteredExecution
        /\ locals.profit = Some(Rat(30 * 1000 - (50020 + 50050), 1000))

\* C4: an emitted opportunity never takes its bid and its ask from the same
\* venue's book (buyVenue # sellVenue).
C4_BuyVenueDiffersFromSellVenue ==
    EnteredExecution => locals.best_bid[1].venue # locals.best_ask[1].venue

\* The last call invoked DexClient::rebalance_position.
RebalanceFired == \E i \in DOMAIN calls : calls[i][2] = "rebalance_position"

\* C10: for a position of bounds 0 < min < max, a rebalance fires if and only
\* if the deviation |current - m| / m from the midpoint m of the bounds is
\* greater than or equal to the configured rebalanceThreshold.
C10_RebalanceFiresIffDeviationReachesThreshold ==
    (op = "calculate_rebalance_threshold"
        /\ FLt(Num(0), args.min_price) /\ FLt(args.min_price, args.max_price)) =>
        (FGe(result.val, config.rebalance_threshold) <=> RebalanceFired)

\* The arguments of the last LP helper call are finite and not negative.
SaneRangeInputs ==
    /\ FGe(args.current_price, Num(0))
    /\ FGe(args.volatility, Num(0))
    /\ FGe(args.time_horizon, Num(0))

\* The deviation of the price a range was derived from against that range.
RoundTripDeviation ==
    RebalanceDeviation(args.current_price, result.val[1], result.val[2])

\* C11: the deviation calculate_rebalance_threshold computes for a price
\* against the bounds calculate_optimal_range has just derived from that same
\* price is 0, so it reaches no positive rebalance threshold.
C11_RederivedRangeHasZeroDeviation ==
    (op = "calculate_optimal_range" /\ SaneRangeInputs) =>
        /\ RoundTripDeviation = Num(0)
        /\ ~FGe(RoundTripDeviation, config.rebalance_threshold)

\* C12: every range calculate_optimal_range produces has minPrice < maxPrice,
\* and no position size calculate_optimal_position_size produces is negative.
C12_RangeIsOrderedAndAmountsNotNegative ==
    /\ (op = "calculate_optimal_range" /\ SaneRangeInputs) =>
           FLt(result.val[1], result.val[2])
    /\ op = "calculate_optimal_position_size" => ~FLt(result.val, Num(0))

\* Confidence widths two oracle quotes may carry (pyth's, switchboard's).
ConfidenceWidths == {Rat(1, 100), Rat(1, 10)}

\* The blended price lies strictly nearer to price a than to price b.
NearerTo(a, b) == FLt(FAbs(FSub(result.val, a)), FAbs(FSub(result.val, b)))

\* C13: with both oracle sources delivering, the blended price is nearer to
\* the source whose confidence interval is tighter whenever the two prices
\* differ, whatever widths the two quotes carry; with one source delivering
\* it is that source's price; with none the call fails.
C13_BlendWeighsTighterConfidenceMore ==
    op = "oracles::get_best_price" =>
        LET pyth == args.pyth_price
            switchboard == args.switchboard_price
        IN  /\ (pyth.ok /\ switchboard.ok /\ ~IsNaN(pyth.val)
                  /\ ~IsNaN(switchboard.val) /\ pyth.val # switchboard.val) =>
                 /\ result.kind = "Ok"
                 /\ \A wp \in ConfidenceWidths, ws \in ConfidenceWidths :
                      /\ FLt(wp, ws) => NearerTo(pyth.val, switchboard.val)
                      /\ FLt(ws, wp) => NearerTo(switchboard.val, pyth.val)
            /\ (pyth.ok /\ ~switchboard.ok) => result = Returned(pyth.val)
            /\ (~pyth.ok /\ switchboard.ok) => result = Returned(switchboard.val)
            /\ (~pyth.ok /\ ~switchboard.ok) => result.kind = "Err"

\* The detection call ended with the error of a venue's order-book call.
AbortedByVenueFailure ==
    op = "execute_arbitrage" /\ result = Failed("get_order_book")

\* C14: a detection cycle ends with a venue's error only when the order-book
\* call of every venue failed, and a monitoring cycle ends with an error
\* only when the ticker call of every venue failed.
C14_SingleVenueFailureNeverAbortsCycle ==
    /\ AbortedByVenueFailure => \A i \in VenueIdx : ~args.books[i].ok
    /\ (op = "monitor_price_differences" /\ result.kind = "Err") =>
           \A i \in VenueIdx : ~args.tickers[i].ok

\* The core operations on venue data.
CoreOperations ==
    {"get_best_price_across_exchanges", "execute_arbitrage",
     "BinanceClient::get_order_book", "monitor_price_differences"}

\* C15: no best-price query, arbitrage detection or order-book conversion
\* ends in a panic, whatever the venues answered.
C15_NoCoreOperationPanics ==
    op \in CoreOperations => result.kind # "Panic"

\* Venue i failed in each of the FailureLimit queries before the present one.
FailedInARow(i) == failures[i] = FailureLimit

\* C16: a venue that failed FailureLimit times in a row is excluded from the
\* best-price query that follows at once: its price is not the one returned.
C16_VenueIsExcludedAfterConsecutiveFailures ==
    (op = "get_best_price_across_exchanges" /\ result.kind = "Ok") =>
        \A i \in VenueIdx : FailedInARow(i) => result.val.exchange # Venues[i]

\* The last call was a request of the Binance adapter.
AdapterRequest ==
    op \in {"BinanceClient::get_order_book", "BinanceClient::place_order"}

\* How often the last adapter request was sent again after its first send.
Retries == Len(calls) - 1

\* No venue was asked twice in the last call.
EachVenueAskedOnce ==
    \A i, j \in DOMAIN calls : calls[i][1] = calls[j][1] => i = j

ExecutionAttempted == op = "execute_arbitrage" /\ locals.profit # None

\* The trade events the last call handed to MetricsManager::record_trade.
TradeEvents == {i \in DOMAIN calls : calls[i][2] = "record_trade"}

\* C21: an execution attempt, whatever its outcome, has handed exactly one
\* trade event to the metrics collaborator when it finishes.
C21_EveryAttemptEmitsOneTradeEvent ==
    ExecutionAttempted => Cardinality(TradeEvents) = 1

\* Historical execution latencies and configured fees a venue may have.
LatencyTables == [VenueIdx -> {10, 20}]

FeeTables == [VenueIdx -> {1, 2}]

\* Venue i comes before venue j in the order latency, then fee.
Preferred(latency, fee, i, j) ==
    \/ latency[i] < latency[j]
    \/ latency[i] = latency[j] /\ fee[i] <= fee[j]

\* The venues whose ticker equals the best price of the last query.
TiedTickers ==
    {i \in VenueIdx : args.tickers[i].ok /\ args.tickers[i].val = result.val.price}

\* The venues whose top bid equals the best bid of the last detection.
TiedBids ==
    {i \in VenueIdx : /\ args.books[i].val.bids # <<>>
                      /\ args.books[i].val.bids[1] = locals.best_bid[1].price}

VenueIndex(name) == CHOOSE i \in VenueIdx : Venues[i] = name

\* C22: among the venues that share the best price, the one selected comes
\* first by historical latency, then by configured fee, whatever latencies
\* and fees the venues have.
C22_TieIsBrokenByLatencyThenFee ==
    \A latency \in LatencyTables, fee \in FeeTables :
        /\ (op = "get_best_price_across_exchanges" /\ result.kind = "Ok") =>
               \A j \in TiedTickers :
                   Preferred(latency, fee, VenueIndex(result.val.exchange), j)
        /\ (op = "execute_arbitrage" /\ locals.best_bid # None) =>
               \A j \in TiedBids :
                   Preferred(latency, fee, VenueIndex(locals.best_bid[1].venue), j)

\* The sum of the entries of a wallet_volumes map.
RECURSIVE SumOfVolumes(_)
SumOfVolumes(wallet_volumes) ==
    IF DOMAIN wallet_volumes = {} THEN Num(0)
    ELSE LET w == CHOOSE x \in DOMAIN wallet_volumes : TRUE
             rest == [x \in DOMAIN wallet_volumes \ {w} |-> wallet_volumes[x]]
         IN  FAdd(wallet_volumes[w], SumOfVolumes(rest))

\* run_simulation has returned for a positive duration and a wallet or more.
SimulationReturned ==
    /\ op = "run_simulation"
    /\ result.kind = "Ok"
    /\ args.duration > 0
    /\ args.num_wallets >= 1

\* C23: a simulation that returned, run for a positive duration with at least
\* one wallet, has made a trade, has a positive total volume that is the sum
\* of the wallets' volumes, has one execution time per trade, and its average
\* trade size is the total volume divided by the number of trades.
C23_SimulationResultIsConsistent ==
    SimulationReturned =>
        LET r == result.val
        IN  /\ r.num_trades >= 1
            /\ FGt(r.total_volume, Num(0))
            /\ DOMAIN r.wallet_volumes # {}
            /\ r.total_volume = SumOfVolumes(r.wallet_volumes)
            /\ r.num_trades = Len(r.execution_times)
            /\ r.average_trade_size = FDiv(r.total_volume, Num(r.num_trades))

\* The record_trade calls that have returned, as the observer logged them.
ReturnedTrades == {i \in DOMAIN calls : calls[i][2] = "record_trade"}

\* The counters of TradeMetrics agree with each other and with the calls made.
CountersAgree ==
    /\ trade_metrics.num_trades
           = trade_metrics.successful_trades + trade_metrics.failed_trades
    /\ trade_metrics.num_trades = Len(trade_metrics.trade_latencies)
    /\ trade_metrics.num_trades = Cardinality(ReturnedTrades)
    /\ trade_metrics.successful_trades
           = Cardinality({i \in ReturnedTrades : calls[i][3].success})
    /\ trade_metrics.failed_trades
           = Cardinality({i \in ReturnedTrades : ~calls[i][3].success})

\* average_trade_size is total_volume / num_trades.
AverageIsVolumePerTrade ==
    trade_metrics.average_trade_size
        = FDiv(trade_metrics.total_volume, Num(trade_metrics.num_trades))

\* C24 as stated: after any sequence and interleaving of record_trade calls,
\* the empty one included, the counters agree with each other and with the
\* calls made, and average_trade_size is total_volume / num_trades.
C24_CountersAgreeAndAverageIsVolumePerTrade ==
    CountersAgree /\ AverageIsVolumePerTrade

\* C24, amended: the counters agree after any sequence and interleaving of
\* record_trade calls, and average_trade_size is total_volume / num_trades
\* once a call has returned.
C24_CountersAgreeAndAverageAfterFirstTrade ==
    /\ CountersAgree
    /\ trade_metrics.num_trades >= 1 => AverageIsVolumePerTrade

\* A failed and a successful trade have been recorded while a third call
\* waits for the lock.
C24_Witness ==
    /\ trade_metrics.successful_trades = 1
    /\ trade_metrics.failed_trades = 1
    /\ Len(writers) = 1
    /\ calls[1][3].volume # calls[2][3].volume

\* The monitor has completed an iteration of its loop.
Ticked == op = "monitor_price_changes" /\ locals.tick # None

\* The change of price b against price a, relative to a.
RelativeChange(a, b) == FDiv(FAbs(FSub(b, a)), a)

\* C25: on a tick the callback is called, with the current price, if and only
\* if the relative change of the current price against the baseline is at
\* least the threshold; the baseline becomes the current price on the ticks
\* where the callback is called and stays what it was on every other tick.
C25_CallbackIffChangeReachesThreshold ==
    Ticked =>
        LET tick == locals.tick[1]
            reached == FGe(RelativeChange(tick.baseline, tick.current_price),
                           args.threshold)
        IN  /\ reached => /\ tick.callback = Some(tick.current_price)
                          /\ locals.last_price = Some(tick.current_price)
            /\ ~reached => /\ tick.callback = None
                           /\ locals.last_price = Some(tick.baseline)

\* A drift: the callback is called on a tick whose price is less than the
\* positive threshold away from the price of the tick before, on which the
\* callback was not called.
C25_Witness ==
    /\ Ticked
    /\ locals.previous_tick # None
    /\ FGt(args.threshold, Num(0))
    /\ locals.previous_tick[1].callback = None
    /\ locals.tick[1].callback # None
    /\ FLt(RelativeChange(locals.previous_tick[1].current_price,
                          locals.tick[1].current_price), args.threshold)

=============================================================================
